---- MODULE Spec2Model ----
(***************************************************************************)
(* Model of the backend abstraction and command-confirmation core of       *)
(* ros_gym:                                                                *)
(*   - MavrosUAVRobotEnv (robot_envs/mavros_uav_robot_env.py): telemetry   *)
(*     callbacks, _set_service_request and its four users, and             *)
(*     _reset_pose_estimator;                                              *)
(*   - AirsimHandler (ros_gym/gym_airsim/airsim_handler.py).               *)
(* Three specifications share the variables: Spec (confirmed commands),    *)
(* SpecEst (estimator barrier) and SpecAir (AirSim handler).               *)
(***************************************************************************)
EXTENDS Integers, Sequences, FiniteSets, TLC

(* ------------------------------ bounds --------------------------------- *)
\* the clock (rospy.Time.now, in units of one wait_time) is cut off here
MaxTime == 4
\* the timeout argument of a command (5.0 s by default, a hundred times
\* wait_time), in units of one wait_time
Timeout == 2
\* evaluations of cond() in the poll loop of one call (the loop is a busy loop)
MaxPolls == 2
\* GPS fixes 1..MaxFix; fix i is (latitude i, longitude i)
MaxFix == 2
\* header stamps of estimator status samples are 0..MaxStamp
MaxStamp == 2
\* simulator resets are counted up to MaxResets
MaxResets == 2
\* the simulated vehicle is at one of the places 0..MaxPos
MaxPos == 1
MaxQueries == 1

(* ----------------------------- constants ------------------------------- *)
\* the default of the parameter wait_time, the unit of the clock
WaitTime == 1

(* ------------------------------ values --------------------------------- *)
\* flight modes of mavros_msgs/State.mode the commands ask about
Modes == {"MANUAL", "AUTO.TAKEOFF", "AUTO.LAND"}
\* a mavros_msgs/State message
StateMsgs == [mode : Modes, armed : BOOLEAN]
\* a sensor_msgs/NavSatFix message
GpsMsgs == {[latitude |-> i, longitude |-> i] : i \in 1..MaxFix}
\* a mavros_msgs/EstimatorStatus message (header.stamp and the two flags
\* the barrier reads)
EstMsgs == [stamp : 0..MaxStamp, pred_hor_position_rel : BOOLEAN,
            pred_hor_position_abs : BOOLEAN]
\* an attribute that was never assigned holds no message: the empty sequence;
\* an assigned one holds <<msg>>
Unset == << >>
\* the command of an idle command thread
NoCommand == [name |-> "none", mode |-> "MANUAL", arm |-> FALSE]
\* what a service proxy call can do: raise rospy.ServiceException, or return
\* a response object whose success flag is false or true
Replies == {"exception", "nack", "ack"}

VARIABLES
    \* ---- MavrosUAVRobotEnv: telemetry attributes
    _state,        \* self._state
    _gps,          \* self._gps
    \* ---- the environment of a confirmed command
    now,           \* rospy.Time.now()
    shutdown,      \* rospy.is_shutdown()
    \* ---- the command thread inside _set_*_request / _set_service_request
    pc,            \* position of the command thread
    cmd,           \* the command being run
    timeout,       \* its timeout argument
    req,           \* <<latitude, longitude>> of the request tuple (takeoff, land)
    start_time,    \* the local start_time
    result,        \* "none", "True", "False" or "AttributeError" (escaped)
    retLine,       \* source line of the return statement taken, 0 if none
    \* ---- observations of the current call
    entryCond,     \* value of cond() at line 112: "none", "true", "false", "raise"
    reply,         \* what srv(*req) did: "none" or a member of Replies
    srvCalls,      \* invocations of srv in this call
    polls,         \* evaluations of cond() at line 116 in this call
    lastCond,      \* value of the last evaluation of cond() in this call
    lateChecks,    \* executions of line 117 that found elapsed >= timeout
    retTime,       \* the clock when the call returned
    everHeld,      \* a delivery during this call made cond true of _state
    inTime,        \* ... after srv accepted and before timeout had elapsed
    got,           \* the last value read through the property gps
    \* ---- MavrosUAVRobotEnv._reset_pose_estimator
    _est_status,   \* self._est_status
    epc,           \* position of the thread inside _reset_pose_estimator
    time_stamp,    \* the local time_stamp
    ekf2_stop,     \* the process of line 179: "none", "running", "exited"
    ekf2_start,    \* the process of line 181: "none", "running", "exited"
    eresult,       \* "none", "returned" or "AttributeError" (escaped)
    goodSample,    \* a sample delivered since line 178 was newer and valid
    elog,          \* the steps of the current call, in the order they ran
    \* ---- AirsimHandler
    _new_state,        \* self._new_state
    _multirotor_state, \* self._multirotor_state (None is Unset)
    sim,               \* the simulator behind self._client
    lastOp,            \* the handler operation that ran last, "none" at first
    prevOp,            \* the one before it
    outcome,           \* of lastOp: "returned" or "raised" (escaped)
    vendorRaised,      \* a call of the vendor client raised during lastOp
    fetched,           \* lastOp called getMultirotorState
    lastRead,          \* what lastOp returned, when it was client_state and returned
    phase,             \* of the constructor: new, ready, exited, failed
    calls,             \* the vendor calls lastOp issued, in order
    queries,           \* getMultirotorState calls since the snapshot went stale
    fetches            \* those of them that returned a snapshot

cmdVars == <<pc, cmd, timeout, req, start_time, result, retLine>>
obsVars == <<entryCond, reply, srvCalls, polls, lastCond, lateChecks, retTime,
             everHeld, inTime, got>>
mavVars == <<_state, _gps, now, shutdown, cmdVars, obsVars>>
estVars == <<_est_status, epc, time_stamp, ekf2_stop, ekf2_start, eresult,
             goodSample, elog>>
airVars == <<_new_state, _multirotor_state, sim, lastOp, prevOp, outcome,
             vendorRaised, fetched, lastRead, phase, calls, queries, fetches>>
vars == <<mavVars, estVars, airVars>>

(* ---------------------- readiness predicates --------------------------- *)
\* the lambdas of lines 136, 147, 158 and 169, applied to a State message
CondOf(c, msg) ==
    IF c.name = "arming" THEN msg.armed = c.arm ELSE msg.mode = c.mode

\* cond(): the lambda reads self._state, which raises AttributeError when the
\* attribute holds no message
cond(c, st) ==
    IF st = Unset THEN "raise"
    ELSE IF CondOf(c, st[1]) THEN "true" ELSE "false"

\* truth value of what srv(*req) returns in `if srv(*req)` (line 114): a
\* response is a message object, which defines neither __bool__ nor __len__,
\* so it is true whatever its success flag is
Truthy(r) == r \in {"ack", "nack"}

\* line 117: (rospy.Time.now() - start_time).to_sec() >= timeout
TimedOutStrict(t, start, limit) == t - start > limit
TimedOut(t, start, limit) == t - start >= limit

\* the assignment self._x = msg of a callback: the attribute is rebound to
\* the new message object
StoreTorn(old, msg) ==
    IF old = Unset THEN <<msg>>
    ELSE LET kept == CHOOSE f \in DOMAIN msg : TRUE
         IN  <<[f \in DOMAIN msg |-> IF f = kept THEN old[1][f] ELSE msg[f]]>>
Store(old, msg) == <<msg>>

(* --------------------------- initial state ----------------------------- *)
\* after __init__ (lines 16-33): no telemetry attribute is assigned
InitMav ==
    /\ _state = Unset
    /\ _gps = Unset
    /\ now = 0
    /\ shutdown = FALSE
    /\ pc = "idle"
    /\ cmd = NoCommand
    /\ timeout = Timeout
    /\ req = <<0, 0>>
    /\ start_time = 0
    /\ result = "none"
    /\ retLine = 0
    /\ entryCond = "none"
    /\ reply = "none"
    /\ srvCalls = 0
    /\ polls = 0
    /\ lastCond = "none"
    /\ lateChecks = 0
    /\ retTime = 0
    /\ everHeld = FALSE
    /\ inTime = FALSE
    /\ got = Unset

(* ----------------------- environment actions --------------------------- *)
\* the command thread is inside a call of _set_service_request
InCall == pc \in {"cond0", "srv", "reply", "loop_cond", "loop_shutdown", "loop_time"}
\* ... and the service has accepted the request
InLoop == pc \in {"loop_cond", "loop_shutdown", "loop_time"}

\* lines 44-45: the subscriber thread delivers a State message
_state_cb ==
    /\ UNCHANGED <<estVars, airVars>>
    /\  \E msg \in StateMsgs :
            LET new == Store(_state, msg)
                holds == InCall /\ cond(cmd, new) = "true"
            IN  /\ _state' = new
                /\ everHeld' = (everHeld \/ holds)
                /\ inTime' = (inTime \/ (holds /\ InLoop /\ reply = "ack"
                                          /\ now - start_time < timeout))
                /\ UNCHANGED <<_gps, now, shutdown, cmdVars, entryCond, reply,
                               srvCalls, polls, lastCond, lateChecks, retTime, got>>

\* lines 50-51: the subscriber thread delivers a NavSatFix message
_gps_cb ==
    /\ UNCHANGED <<estVars, airVars>>
    /\  \E msg \in GpsMsgs :
            /\ _gps' = Store(_gps, msg)
            /\ UNCHANGED <<_state, now, shutdown, cmdVars, obsVars>>

\* the clock advances. The code uses the clock only through differences with
\* start_time, so the clock is kept relative to the moment the command thread
\* was last idle; between the read of line 111 and the first read of line 117
\* time passes while the thread waits for the service
Tick ==
    /\ UNCHANGED <<estVars, airVars>>
    /\ pc \in {"args_lon", "reply", "loop_cond", "loop_shutdown", "loop_time"}
    /\ now < MaxTime
    /\ now' = now + 1
    /\ UNCHANGED <<_state, _gps, shutdown, cmdVars, obsVars>>

\* rospy is shut down
Shutdown ==
    /\ UNCHANGED <<estVars, airVars>>
    /\ ~shutdown
    /\ shutdown' = TRUE
    /\ UNCHANGED <<_state, _gps, now, cmdVars, obsVars>>

(* ------------------------- the command thread -------------------------- *)
\* lines 68-75, run by the command thread between commands: every telemetry
\* attribute is assigned the message _check_subscriber_ready received
_check_all_subscribers_ready ==
    /\ UNCHANGED <<estVars, airVars>>
    /\ pc = "idle"
    /\ \E s \in StateMsgs, g \in GpsMsgs :
        /\ _state' = Store(_state, s)
        /\ _gps' = Store(_gps, g)
    /\ UNCHANGED <<now, shutdown, cmdVars, obsVars>>

\* lines 64-66: the property gps returns the object self._gps is bound to
gps ==
    /\ UNCHANGED <<estVars, airVars>>
    /\ pc = "idle"
    /\ got' = _gps
    /\ UNCHANGED <<_state, _gps, now, shutdown, cmdVars, entryCond, reply,
                   srvCalls, polls, lastCond, lateChecks, retTime, everHeld,
                   inTime>>

\* a new call starts with no observations
ClearObs ==
    /\ entryCond' = "none"
    /\ reply' = "none"
    /\ srvCalls' = 0
    /\ polls' = 0
    /\ lastCond' = "none"
    /\ lateChecks' = 0
    /\ retTime' = 0
    /\ everHeld' = FALSE
    /\ inTime' = FALSE
    /\ got' = Unset

\* entry of _set_service_request with command c and timeout t: line 111
Enter(c, t) ==
    /\ cmd' = c
    /\ timeout' = t
    /\ start_time' = now
    /\ pc' = "cond0"
    /\ result' = "none"
    /\ retLine' = 0

\* the call ends: it returns res at source line ln, or an exception escapes
Finish(res, ln) ==
    /\ result' = res
    /\ retLine' = ln
    /\ retTime' = now
    /\ pc' = "done"

\* lines 132-141
_set_mode_request ==
    /\ UNCHANGED <<estVars, airVars>>
    /\ pc = "idle"
    /\ \E m \in Modes, t \in {Timeout} :
        Enter([name |-> "set_mode", mode |-> m, arm |-> FALSE], t)
    /\ req' = <<0, 0>>
    /\ ClearObs
    /\ UNCHANGED <<_state, _gps, now, shutdown>>

\* lines 143-152
_set_arming_request ==
    /\ UNCHANGED <<estVars, airVars>>
    /\ pc = "idle"
    /\ \E a \in BOOLEAN, t \in {Timeout} :
        Enter([name |-> "arming", mode |-> "MANUAL", arm |-> a], t)
    /\ req' = <<0, 0>>
    /\ ClearObs
    /\ UNCHANGED <<_state, _gps, now, shutdown>>

\* the request tuple of lines 160 and 171 is built before the call: first
\* self._gps.latitude is read; it raises AttributeError when _gps holds no
\* message
BuildRequest(c, t) ==
    /\ UNCHANGED <<estVars, airVars>>
    /\ cmd' = c
    /\ timeout' = t
    /\ ClearObs
    /\ IF _gps = Unset
       THEN /\ result' = "AttributeError"
            /\ retLine' = 0
            /\ pc' = "done"
            /\ UNCHANGED <<req, start_time>>
       ELSE /\ req' = <<_gps[1].latitude, 0>>
            /\ pc' = "args_lon"
            /\ result' = "none"
            /\ retLine' = 0
            /\ UNCHANGED start_time
    /\ UNCHANGED <<_state, _gps, now, shutdown>>

\* lines 154-163
_set_takeoff_request ==
    /\ pc = "idle"
    /\ \E t \in {Timeout} :
        BuildRequest([name |-> "takeoff", mode |-> "AUTO.TAKEOFF", arm |-> FALSE], t)

\* lines 165-174
_set_land_request ==
    /\ pc = "idle"
    /\ \E t \in {Timeout} :
        BuildRequest([name |-> "land", mode |-> "AUTO.LAND", arm |-> FALSE], t)

\* lines 160, 171: then self._gps.longitude is read, and the call is entered
ReadLongitude ==
    /\ UNCHANGED <<estVars, airVars>>
    /\ pc = "args_lon"
    /\ req' = <<req[1], _gps[1].longitude>>
    /\ Enter(cmd, timeout)
    /\ UNCHANGED <<_state, _gps, now, shutdown, obsVars>>

\* a variant of line 112 that sends the request whatever cond() says
EntryCondCallsFirst ==
    /\ UNCHANGED <<estVars, airVars>>
    /\ pc = "cond0"
    /\ LET v == cond(cmd, _state)
       IN  /\ entryCond' = v
           /\ lastCond' = v
           /\ IF v = "raise" THEN Finish("AttributeError", 0)
              ELSE /\ pc' = "srv"
                   /\ UNCHANGED <<result, retLine, retTime>>
    /\ UNCHANGED <<_state, _gps, now, shutdown, cmd, timeout, req, start_time,
                   reply, srvCalls, polls, lateChecks, everHeld, inTime, got>>
\* line 112: `if not cond()`, and line 129 when cond() is true
EntryCond ==
    /\ UNCHANGED <<estVars, airVars>>
    /\ pc = "cond0"
    /\ LET v == cond(cmd, _state)
       IN  /\ entryCond' = v
           /\ lastCond' = v
           /\ IF v = "raise" THEN Finish("AttributeError", 0)
              ELSE IF v = "true" THEN Finish("True", 129)
              ELSE /\ pc' = "srv"
                   /\ UNCHANGED <<result, retLine, retTime>>
    /\ UNCHANGED <<_state, _gps, now, shutdown, cmd, timeout, req, start_time,
                   reply, srvCalls, polls, lateChecks, everHeld, inTime, got>>

\* line 114: srv(*req) is invoked; the thread blocks until the reply
SrvCall ==
    /\ UNCHANGED <<estVars, airVars>>
    /\ pc = "srv"
    /\ srvCalls' = srvCalls + 1
    /\ pc' = "reply"
    /\ UNCHANGED <<_state, _gps, now, shutdown, cmd, timeout, req, start_time,
                   result, retLine, entryCond, reply, polls, lastCond,
                   lateChecks, retTime, everHeld, inTime, got>>

\* lines 114, 121-126: the service raises or answers
SrvReturn ==
    /\ UNCHANGED <<estVars, airVars>>
    /\ pc = "reply"
    /\ \E r \in Replies :
        /\ reply' = r
        /\ IF r = "exception" THEN Finish("False", 126)
           ELSE IF Truthy(r)
                THEN /\ pc' = "loop_cond"
                     /\ UNCHANGED <<result, retLine, retTime>>
                ELSE Finish("False", 123)
    /\ UNCHANGED <<_state, _gps, now, shutdown, cmd, timeout, req, start_time,
                   entryCond, srvCalls, polls, lastCond, lateChecks, everHeld,
                   inTime, got>>

\* a variant of the loop in which a true cond() does not leave the loop
\* before the timeout check has run
LoopCondChecksTimeFirst ==
    /\ UNCHANGED <<estVars, airVars>>
    /\ pc = "loop_cond"
    /\ polls < MaxPolls
    /\ polls' = polls + 1
    /\ LET v == cond(cmd, _state)
       IN  /\ lastCond' = v
           /\ IF v = "raise" THEN Finish("AttributeError", 0)
              ELSE IF v = "true" /\ ~TimedOut(now, start_time, timeout)
                   THEN Finish("True", 120)
              ELSE /\ pc' = "loop_shutdown"
                   /\ UNCHANGED <<result, retLine, retTime>>
    /\ UNCHANGED <<_state, _gps, now, shutdown, cmd, timeout, req, start_time,
                   entryCond, reply, srvCalls, lateChecks, everHeld, inTime,
                   got>>
\* line 116, first conjunct: `while not cond()`; line 120 when cond() is true
LoopCond ==
    /\ UNCHANGED <<estVars, airVars>>
    /\ pc = "loop_cond"
    /\ polls < MaxPolls
    /\ polls' = polls + 1
    /\ LET v == cond(cmd, _state)
       IN  /\ lastCond' = v
           /\ IF v = "raise" THEN Finish("AttributeError", 0)
              ELSE IF v = "true" THEN Finish("True", 120)
              ELSE /\ pc' = "loop_shutdown"
                   /\ UNCHANGED <<result, retLine, retTime>>
    /\ UNCHANGED <<_state, _gps, now, shutdown, cmd, timeout, req, start_time,
                   entryCond, reply, srvCalls, lateChecks, everHeld, inTime,
                   got>>

\* line 116, second conjunct: `and not rospy.is_shutdown()`; the loop is
\* left when rospy is shut down, and line 120 returns True
LoopShutdown ==
    /\ UNCHANGED <<estVars, airVars>>
    /\ pc = "loop_shutdown"
    /\ IF shutdown THEN Finish("True", 120)
       ELSE /\ pc' = "loop_time"
            /\ UNCHANGED <<result, retLine, retTime>>
    /\ UNCHANGED <<_state, _gps, now, shutdown, cmd, timeout, req, start_time,
                   entryCond, reply, srvCalls, polls, lastCond, lateChecks,
                   everHeld, inTime, got>>

\* a variant of the loop that sends the request again while it waits
LoopTimeResends ==
    /\ UNCHANGED <<estVars, airVars>>
    /\ pc = "loop_time"
    /\ lateChecks' = lateChecks + (IF now - start_time >= timeout THEN 1 ELSE 0)
    /\ IF TimedOut(now, start_time, timeout)
       THEN Finish("False", 119)
       ELSE /\ pc' = "srv"
            /\ UNCHANGED <<result, retLine, retTime>>
    /\ UNCHANGED <<_state, _gps, now, shutdown, cmd, timeout, req, start_time,
                   entryCond, reply, srvCalls, polls, lastCond, everHeld,
                   inTime, got>>

\* lines 117-119: the timeout check in the body of the loop
LoopTime ==
    /\ UNCHANGED <<estVars, airVars>>
    /\ pc = "loop_time"
    /\ lateChecks' = lateChecks + (IF now - start_time >= timeout THEN 1 ELSE 0)
    /\ IF TimedOut(now, start_time, timeout)
       THEN Finish("False", 119)
       ELSE /\ pc' = "loop_cond"
            /\ UNCHANGED <<result, retLine, retTime>>
    /\ UNCHANGED <<_state, _gps, now, shutdown, cmd, timeout, req, start_time,
                   entryCond, reply, srvCalls, polls, lastCond, everHeld,
                   inTime, got>>

\* the caller has the outcome; the command thread is free again and the
\* locals of the call are gone
Return ==
    /\ UNCHANGED <<estVars, airVars>>
    /\ pc = "done"
    /\ pc' = "idle"
    /\ cmd' = NoCommand
    /\ timeout' = Timeout
    /\ req' = <<0, 0>>
    /\ start_time' = 0
    /\ result' = "none"
    /\ retLine' = 0
    /\ ClearObs
    /\ now' = 0
    /\ UNCHANGED <<_state, _gps, shutdown>>

Next ==
    \/ _state_cb
    \/ _gps_cb
    \/ Tick
    \/ Shutdown
    \/ _check_all_subscribers_ready
    \/ gps
    \/ _set_mode_request
    \/ _set_arming_request
    \/ _set_takeoff_request
    \/ _set_land_request
    \/ ReadLongitude
    \/ EntryCond
    \/ SrvCall
    \/ SrvReturn
    \/ LoopCond
    \/ LoopShutdown
    \/ LoopTime
    \/ Return

(* ====================== _reset_pose_estimator ========================== *)
InitEst ==
    /\ _est_status = Unset
    /\ epc = "idle"
    /\ time_stamp = 0
    /\ ekf2_stop = "none"
    /\ ekf2_start = "none"
    /\ eresult = "none"
    /\ goodSample = FALSE
    /\ elog = << >>


\* the thread is inside _reset_pose_estimator, past line 178
PastStamp == epc \in {"stop_wait", "start", "start_wait", "loop_stamp",
                      "loop_rel", "loop_abs"}

\* a good estimate: a sample newer than the recorded stamp with both
\* horizontal-position flags true
Good(msg, stamp) ==
    /\ msg.stamp > stamp
    /\ msg.pred_hor_position_rel
    /\ msg.pred_hor_position_abs

\* lines 53-54: the subscriber thread delivers an EstimatorStatus message;
\* the estimator stamps its samples in non-decreasing order
_est_status_cb ==
    /\ UNCHANGED <<mavVars, airVars>>
    /\ \E msg \in EstMsgs :
        /\ _est_status # Unset => msg.stamp >= _est_status[1].stamp
        /\ _est_status' = Store(_est_status, msg)
        /\ goodSample' = (goodSample \/ (PastStamp /\ Good(msg, time_stamp)))
    /\ UNCHANGED <<epc, time_stamp, ekf2_stop, ekf2_start, eresult, elog>>

\* lines 177-179: the stamp of the current sample is recorded (AttributeError
\* when _est_status holds no message) and the stop process is spawned
_reset_pose_estimator ==
    /\ UNCHANGED <<mavVars, airVars>>
    /\ epc = "idle"
    /\ goodSample' = FALSE
    /\ ekf2_start' = "none"
    /\ IF _est_status = Unset
       THEN /\ eresult' = "AttributeError"
            /\ epc' = "done"
            /\ ekf2_stop' = "none"
            /\ elog' = << >>
            /\ UNCHANGED time_stamp
       ELSE /\ time_stamp' = _est_status[1].stamp
            /\ ekf2_stop' = "running"
            /\ epc' = "stop_wait"
            /\ eresult' = "none"
            /\ elog' = <<"stamp", "stop">>
    /\ UNCHANGED _est_status

\* the process `<estimator> stop` exits
StopExits ==
    /\ UNCHANGED <<mavVars, airVars>>
    /\ ekf2_stop = "running"
    /\ ekf2_stop' = "exited"
    /\ UNCHANGED <<_est_status, epc, time_stamp, ekf2_start, eresult, goodSample,
                   elog>>

\* a variant of line 180 that does not wait for the stop process
StopWaitSkipped ==
    /\ UNCHANGED <<mavVars, airVars>>
    /\ epc = "stop_wait"
    /\ epc' = "start"
    /\ elog' = Append(elog, "stop_exited")
    /\ UNCHANGED <<_est_status, time_stamp, ekf2_stop, ekf2_start, eresult,
                   goodSample>>

\* line 180: ekf2_stop.wait() returns once the process has exited
StopWait ==
    /\ UNCHANGED <<mavVars, airVars>>
    /\ epc = "stop_wait"
    /\ ekf2_stop = "exited"
    /\ epc' = "start"
    /\ elog' = Append(elog, "stop_exited")
    /\ UNCHANGED <<_est_status, time_stamp, ekf2_stop, ekf2_start, eresult,
                   goodSample>>

\* line 181: the start process is spawned
StartSpawn ==
    /\ UNCHANGED <<mavVars, airVars>>
    /\ epc = "start"
    /\ ekf2_start' = "running"
    /\ epc' = "start_wait"
    /\ elog' = Append(elog, "start")
    /\ UNCHANGED <<_est_status, time_stamp, ekf2_stop, eresult, goodSample>>

\* the process `<estimator> start` exits
StartExits ==
    /\ UNCHANGED <<mavVars, airVars>>
    /\ ekf2_start = "running"
    /\ ekf2_start' = "exited"
    /\ UNCHANGED <<_est_status, epc, time_stamp, ekf2_stop, eresult, goodSample,
                   elog>>

\* line 182: ekf2_start.wait() returns once the process has exited
StartWait ==
    /\ UNCHANGED <<mavVars, airVars>>
    /\ epc = "start_wait"
    /\ ekf2_start = "exited"
    /\ epc' = "loop_stamp"
    /\ elog' = Append(elog, "start_exited")
    /\ UNCHANGED <<_est_status, time_stamp, ekf2_stop, ekf2_start, eresult,
                   goodSample>>

\* line 185 compares the stamp read from self._est_status with time_stamp
SameStamp(a, b) == a = b

\* lines 185-186: first read of self._est_status; `continue` on the old stamp
LoopStamp ==
    /\ UNCHANGED <<mavVars, airVars>>
    /\ epc = "loop_stamp"
    /\ epc' = IF SameStamp(_est_status[1].stamp, time_stamp)
              THEN "loop_stamp" ELSE "loop_rel"
    /\ elog' = IF elog[Len(elog)] = "poll" THEN elog ELSE Append(elog, "poll")
    /\ UNCHANGED <<_est_status, time_stamp, ekf2_stop, ekf2_start, eresult,
                   goodSample>>

\* line 188, left operand: second read of self._est_status
LoopRel ==
    /\ UNCHANGED <<mavVars, airVars>>
    /\ epc = "loop_rel"
    /\ epc' = IF _est_status[1].pred_hor_position_rel
              THEN "loop_abs" ELSE "loop_stamp"
    /\ UNCHANGED <<_est_status, time_stamp, ekf2_stop, ekf2_start, eresult,
                   goodSample, elog>>

\* lines 188-190, right operand: third read of self._est_status; `break`
\* ends the loop and the method returns
LoopAbs ==
    /\ UNCHANGED <<mavVars, airVars>>
    /\ epc = "loop_abs"
    /\ IF _est_status[1].pred_hor_position_abs
       THEN /\ epc' = "done"
            /\ eresult' = "returned"
       ELSE /\ epc' = "loop_stamp"
            /\ UNCHANGED eresult
    /\ UNCHANGED <<_est_status, time_stamp, ekf2_stop, ekf2_start, goodSample,
                   elog>>

\* the caller goes on; the locals of the call are gone
EstReturn ==
    /\ UNCHANGED <<mavVars, airVars>>
    /\ epc = "done"
    /\ epc' = "idle"
    /\ time_stamp' = 0
    /\ ekf2_stop' = "none"
    /\ ekf2_start' = "none"
    /\ eresult' = "none"
    /\ goodSample' = FALSE
    /\ elog' = << >>
    /\ UNCHANGED _est_status

NextEst ==
    \/ Shutdown
    \/ _est_status_cb
    \/ _reset_pose_estimator
    \/ StopExits
    \/ StopWait
    \/ StartSpawn
    \/ StartExits
    \/ StartWait
    \/ LoopStamp
    \/ LoopRel
    \/ LoopAbs
    \/ EstReturn

(* ============================ AirsimHandler ============================ *)
\* the simulator: resets so far, place of the vehicle, armed, API control
\* enabled, paused
SimStates == [gen : 0..MaxResets, pos : 0..MaxPos, armed : BOOLEAN,
              api : BOOLEAN, paused : BOOLEAN]

\* what getMultirotorState() reports of the simulator
Snapshot(w) == [gen |-> w.gen, pos |-> w.pos, armed |-> w.armed]

\* after lines 21-23 of __init__, before setup has run: no client, no
\* snapshot; the simulator runs on its own, as another client left it:
\* armed, without API control
InitAir ==
    /\ _new_state = TRUE
    /\ _multirotor_state = Unset
    /\ sim = [gen |-> 0, pos |-> 0, armed |-> TRUE, api |-> FALSE,
              paused |-> FALSE]
    /\ lastOp = "none"
    /\ prevOp = "none"
    /\ outcome = "returned"
    /\ vendorRaised = FALSE
    /\ fetched = FALSE
    /\ lastRead = Unset
    /\ phase = "new"
    /\ calls = << >>
    /\ queries = 0
    /\ fetches = 0

Init == InitMav /\ InitEst /\ InitAir

\* an operation with a try/except Exception around its vendor calls (lines
\* 58-63, 69-72, 78-82) logs the exception and returns
NoHandler(raised) == IF raised THEN "raised" ELSE "returned"
TryExcept(raised) == "returned"

\* an operation without a handler (lines 93, 105-106, 112, 139-140, 148)
\* lets the exception escape
Bare(raised) == IF raised THEN "raised" ELSE "returned"

\* bookkeeping of an operation op whose vendor calls raised or not
Ran(op, raised, out, didFetch) ==
    /\ prevOp' = lastOp
    /\ lastOp' = op
    /\ vendorRaised' = raised
    /\ outcome' = out
    /\ fetched' = didFetch

\* the first n of a sequence of vendor calls: those that returned and, when
\* one raised, the one that raised
Issued(order, n) == SubSeq(order, 1, IF n < Len(order) THEN n + 1 ELSE n)

\* the simulation runs: while it is not paused the vehicle moves
SimStep ==
    /\ UNCHANGED <<mavVars, estVars>>
    /\ ~sim.paused
    /\ \E p \in 0..MaxPos :
        /\ p # sim.pos
        /\ sim' = [sim EXCEPT !.pos = p]
    /\ UNCHANGED <<_new_state, _multirotor_state, lastOp, prevOp, outcome,
                   vendorRaised, fetched, lastRead, phase, calls, queries,
                   fetches>>

\* the vendor calls of setup, in the order of lines 33, 41, 42 and of line 13
\* of simulation_handler.py (pause, line 70)
SetupOrder == <<"confirmConnection", "enableApiControl", "armDisarm", "simPause">>

\* a variant of setup that does not pause the simulation
SetupCallsNoPause(w, n) ==
    LET w2 == IF n >= 2 THEN [w EXCEPT !.api = TRUE] ELSE w
    IN  IF n >= 3 THEN [w2 EXCEPT !.armed = FALSE] ELSE w2

\* the effect of the first n of the vendor calls of setup:
\* confirmConnection(), enableApiControl(True), armDisarm(False),
\* simPause(True)
SetupCalls(w, n) ==
    LET w2 == IF n >= 2 THEN [w EXCEPT !.api = TRUE] ELSE w
        w3 == IF n >= 3 THEN [w2 EXCEPT !.armed = FALSE] ELSE w2
    IN  IF n >= 4 THEN [w3 EXCEPT !.paused = TRUE] ELSE w3

\* lines 25-42, and lines 5-13 of simulation_handler.py: the constructor
\* runs setup; the vendor calls run until one raises (done = how many
\* returned). confirmConnection raising ends the process (sys.exit, line
\* 38); enableApiControl or armDisarm raising escapes the constructor;
\* simPause raising is logged by pause (lines 71-72) and setup returns
setup ==
    /\ UNCHANGED <<mavVars, estVars>>
    /\ phase = "new"
    /\ \E done \in 0..4 :
        /\ sim' = SetupCalls(sim, done)
        /\ calls' = Issued(SetupOrder, done)
        /\ phase' = IF done = 0 THEN "exited"
                    ELSE IF done < 3 THEN "failed" ELSE "ready"
        /\ Ran("setup", done < 4,
               IF done = 0 THEN "exited"
               ELSE IF done < 3 THEN "raised" ELSE "returned", FALSE)
    /\ lastRead' = Unset
    /\ UNCHANGED <<_new_state, _multirotor_state, queries, fetches>>

\* the vendor calls of reset, in the order of lines 59-61
ResetOrder == <<"reset", "enableApiControl", "armDisarm">>

\* a variant of reset that does not enable API control again
ResetCallsNoEnable(w, n) ==
    IF n >= 1
    THEN [w EXCEPT !.gen = w.gen + 1, !.pos = 0, !.armed = FALSE,
                   !.api = FALSE]
    ELSE w

\* the effect of the first n of the vendor calls of reset (lines 59-61):
\* reset() puts the vehicle back and reverts control and arming,
\* enableApiControl(True), armDisarm(False)
ResetCalls(w, n) ==
    LET w1 == IF n >= 1
              THEN [w EXCEPT !.gen = w.gen + 1, !.pos = 0, !.armed = FALSE,
                             !.api = FALSE]
              ELSE w
        w2 == IF n >= 2 THEN [w1 EXCEPT !.api = TRUE] ELSE w1
    IN  IF n >= 3 THEN [w2 EXCEPT !.armed = FALSE] ELSE w2

\* lines 54-63: the vendor calls run until one raises (done = how many
\* returned); the cached snapshot and _new_state are left as they are
reset ==
    /\ UNCHANGED <<mavVars, estVars>>
    /\ phase = "ready"
    /\ sim.gen < MaxResets
    /\ \E done \in 0..3 :
        /\ sim' = ResetCalls(sim, done)
        /\ calls' = Issued(ResetOrder, done)
        /\ Ran("reset", done < 3, TryExcept(done < 3), FALSE)
    /\ lastRead' = Unset
    /\ UNCHANGED <<_new_state, _multirotor_state, phase, queries, fetches>>

\* lines 65-72
pause ==
    /\ UNCHANGED <<mavVars, estVars>>
    /\ phase = "ready"
    /\ \E raised \in BOOLEAN :
        /\ sim' = IF raised THEN sim ELSE [sim EXCEPT !.paused = TRUE]
        /\ Ran("pause", raised, TryExcept(raised), FALSE)
    /\ calls' = <<"simPause">>
    /\ lastRead' = Unset
    /\ UNCHANGED <<_new_state, _multirotor_state, phase, queries, fetches>>

\* lines 74-82: the snapshot is marked stale once simPause(False) returned
unpause ==
    /\ UNCHANGED <<mavVars, estVars>>
    /\ phase = "ready"
    /\ \E raised \in BOOLEAN :
        /\ sim' = IF raised THEN sim ELSE [sim EXCEPT !.paused = FALSE]
        /\ _new_state' = IF raised THEN _new_state ELSE TRUE
        /\ queries' = IF raised THEN queries ELSE 0
        /\ fetches' = IF raised THEN fetches ELSE 0
        /\ Ran("unpause", raised, TryExcept(raised), FALSE)
    /\ calls' = <<"simPause">>
    /\ lastRead' = Unset
    /\ UNCHANGED <<_multirotor_state, phase>>

\* lines 84-93
client_arm ==
    /\ UNCHANGED <<mavVars, estVars>>
    /\ phase = "ready"
    /\ \E arm_req \in BOOLEAN, raised \in BOOLEAN :
        /\ sim' = IF raised THEN sim ELSE [sim EXCEPT !.armed = arm_req]
        /\ Ran("client_arm", raised, Bare(raised), FALSE)
    /\ calls' = <<"armDisarm">>
    /\ lastRead' = Unset
    /\ UNCHANGED <<_new_state, _multirotor_state, phase, queries, fetches>>

\* lines 95-106: moveToZAsync(...).join()
client_takeoff ==
    /\ UNCHANGED <<mavVars, estVars>>
    /\ phase = "ready"
    /\ \E raised \in BOOLEAN :
        /\ sim' = IF raised THEN sim ELSE [sim EXCEPT !.pos = MaxPos]
        /\ Ran("client_takeoff", raised, Bare(raised), FALSE)
    /\ calls' = <<"moveToZAsync">>
    /\ lastRead' = Unset
    /\ UNCHANGED <<_new_state, _multirotor_state, phase, queries, fetches>>

\* lines 108-112: landAsync(...).join()
client_land ==
    /\ UNCHANGED <<mavVars, estVars>>
    /\ phase = "ready"
    /\ \E raised \in BOOLEAN :
        /\ sim' = IF raised THEN sim ELSE [sim EXCEPT !.pos = 0]
        /\ Ran("client_land", raised, Bare(raised), FALSE)
    /\ calls' = <<"landAsync">>
    /\ lastRead' = Unset
    /\ UNCHANGED <<_new_state, _multirotor_state, phase, queries, fetches>>

\* lines 114-140: moveByVelocityAsync(...).join()
client_cmd_vel ==
    /\ UNCHANGED <<mavVars, estVars>>
    /\ phase = "ready"
    /\ \E raised \in BOOLEAN, p \in 0..MaxPos :
        /\ sim' = IF raised THEN sim ELSE [sim EXCEPT !.pos = p]
        /\ Ran("client_cmd_vel", raised, Bare(raised), FALSE)
    /\ calls' = <<"moveByVelocityAsync">>
    /\ lastRead' = Unset
    /\ UNCHANGED <<_new_state, _multirotor_state, phase, queries, fetches>>

\* a variant of line 147 that takes the snapshot for stale at every read
StaleAlways(flag) == TRUE

\* line 147: the snapshot is stale when _new_state is set
Stale(flag) == flag

\* lines 142-150: the property fetches a snapshot when _new_state is set,
\* and returns the cached one
client_state ==
    /\ UNCHANGED <<mavVars, estVars>>
    /\ phase = "ready"
    /\ \E raised \in BOOLEAN :
        /\ raised => (Stale(_new_state) /\ queries < MaxQueries)
        /\ IF Stale(_new_state) /\ ~raised
           THEN /\ _multirotor_state' = <<Snapshot(sim)>>
                /\ _new_state' = FALSE
                /\ lastRead' = <<Snapshot(sim)>>
                /\ fetches' = fetches + 1
           ELSE /\ UNCHANGED <<_multirotor_state, _new_state, fetches>>
                /\ lastRead' = IF raised THEN Unset ELSE _multirotor_state
        /\ Ran("client_state", raised, Bare(raised), Stale(_new_state))
    /\ queries' = IF Stale(_new_state) THEN queries + 1 ELSE queries
    /\ calls' = IF Stale(_new_state) THEN <<"getMultirotorState">> ELSE << >>
    /\ UNCHANGED <<sim, phase>>

NextAir ==
    \/ SimStep
    \/ setup
    \/ reset
    \/ pause
    \/ unpause
    \/ client_arm
    \/ client_takeoff
    \/ client_land
    \/ client_cmd_vel
    \/ client_state

Spec == Init /\ [][Next]_vars

(* ====================== confirmed commands ============================= *)

\* C1: a call of _set_service_request that finds cond() true at entry returns
\* True, and the service proxy is not invoked during that call.
C1_ShortCircuit ==
    entryCond = "true" =>
        /\ pc = "done"
        /\ result = "True"
        /\ retLine = 129
        /\ srvCalls = 0
        /\ reply = "none"

\* C1 witness: a takeoff request returned while the mode was already
\* AUTO.TAKEOFF.
C1_Witness ==
    /\ pc = "done"
    /\ cmd.name = "takeoff"
    /\ entryCond = "true"
    /\ result = "True"

\* C2 (as claimed): when cond() is false at entry and the service rejects the
\* request, by raising or by a response whose success flag is false, the call
\* returns False and cond() is not evaluated again.
C2_RejectedWithoutPolling ==
    (entryCond = "false" /\ reply \in {"exception", "nack"}) =>
        /\ polls = 0
        /\ pc = "done"
        /\ result = "False"

\* C3 (as claimed): an accepted request whose predicate stays false, with no
\* shutdown, returns False by the timeout, not before timeout has elapsed
\* since the call started and not later than timeout plus one wait_time.
C3_TimeoutWithinOnePollInterval ==
    (pc = "done" /\ reply = "ack" /\ ~everHeld /\ ~shutdown) =>
        /\ result = "False"
        /\ retLine = 119
        /\ retTime - start_time >= timeout
        /\ retTime - start_time <= timeout + WaitTime

\* C3 (amended): an accepted request whose predicate stays false, with no
\* shutdown, returns False by the timeout, not before timeout has elapsed
\* since the call started, and at the first execution of the timeout check
\* of line 117 that finds the elapsed time at or beyond timeout.
C3_TimeoutAtFirstLateCheck ==
    (pc = "done" /\ reply = "ack" /\ ~everHeld /\ ~shutdown) =>
        /\ result = "False"
        /\ retLine = 119
        /\ retTime - start_time >= timeout
        /\ lateChecks = 1

\* C3 witness: a set_mode request that was accepted, never confirmed, and
\* returned False after polling, later than timeout plus one wait_time.
C3_Witness ==
    /\ pc = "done"
    /\ cmd.name = "set_mode"
    /\ reply = "ack"
    /\ ~everHeld
    /\ ~shutdown
    /\ polls >= 1
    /\ result = "False"
    /\ retTime - start_time > timeout + WaitTime

\* C4 (as claimed): when the poll loop is left because rospy is shut down
\* while the predicate is still false, the call returns a failure, never True.
C4_ShutdownIsFailure ==
    (pc = "done" /\ polls >= 1 /\ lastCond = "false" /\ shutdown) =>
        result = "False"

\* C5 (as claimed): an accepted request succeeds whenever a State message
\* that makes the predicate true is delivered before timeout has elapsed and
\* rospy is not shut down.
C5_ConfirmedInTimeSucceeds ==
    (pc = "done" /\ reply = "ack" /\ inTime /\ ~shutdown) =>
        result = "True"

\* C5 (amended): an accepted request succeeds whenever an evaluation of
\* cond() by the poll loop (line 116) finds the predicate true.
C5_ObservedConfirmationSucceeds ==
    (pc = "done" /\ polls >= 1 /\ lastCond = "true") =>
        /\ result = "True"
        /\ retLine = 120

\* C5 witness: arming was requested while disarmed, accepted, confirmed by a
\* State message in time, and the poll loop saw it.
C5_Witness ==
    /\ pc = "done"
    /\ cmd.name = "arming"
    /\ cmd.arm
    /\ entryCond = "false"
    /\ reply = "ack"
    /\ inTime
    /\ ~shutdown
    /\ polls >= 1
    /\ lastCond = "true"
    /\ result = "True"

\* C8: a read of a telemetry record returns a record as it was delivered,
\* never one that mixes the fields of two deliveries (here: a GPS fix whose
\* latitude and longitude belong to the same fix).
C8_NoTornRead ==
    got # Unset => got[1] \in GpsMsgs

\* C8 witness: a read that followed the delivery of a second, different fix.
C8_Witness ==
    /\ got # Unset
    /\ got = _gps
    /\ got[1].latitude = MaxFix

\* C9 (as claimed): a command issued while _state was never assigned ends
\* with the failure of a timeout; no exception escapes the call.
C9_UnpopulatedDegradesToTimeout ==
    (pc = "done" /\ _state = Unset) =>
        /\ result = "False"
        /\ retLine = 119

\* C12 (as claimed): a command issued while a telemetry subscription has
\* delivered nothing yet (the backend is not established, and
\* _check_all_subscribers_ready has not run) fails with NotReady and does not
\* invoke the service.
C12_NotReadyBeforeEstablished ==
    ((InCall \/ pc = "done") /\ (_state = Unset \/ _gps = Unset)) =>
        /\ srvCalls = 0
        /\ pc = "done" => result = "NotReady"

\* C13 (as claimed): a call that returns True has had true as the value of
\* its most recent evaluation of cond().
C13_SuccessMeansConditionSeen ==
    (pc = "done" /\ result = "True") => lastCond = "true"

\* C16 (as claimed): consecutive evaluations of cond() in the poll loop are
\* one wait_time apart, so the k-th evaluation happens no earlier than k - 1
\* times wait_time after the call started.
C16_PollsOneIntervalApart ==
    (InLoop \/ pc = "done") =>
        (polls >= 1 => (polls - 1) * WaitTime <= now - start_time)

\* C17 (as claimed): the latitude and the longitude sent in a takeoff or land
\* request come from the same NavSatFix message.
C17_RequestFromOneFix ==
    (srvCalls >= 1 /\ cmd.name \in {"takeoff", "land"}) => req[1] = req[2]

\* C18: one call of _set_service_request invokes the service proxy at most
\* once, however the call ends.
C18_AtMostOneServiceCall ==
    srvCalls <= 1

\* C18 witness: a call that invoked the service, polled up to the limit of
\* the model and returned False by the timeout.
C18_Witness ==
    /\ pc = "done"
    /\ srvCalls = 1
    /\ polls = MaxPolls
    /\ result = "False"
    /\ retLine = 119

(* ====================== estimator barrier ============================== *)
SpecEst == Init /\ [][NextEst]_vars

\* C6 (as claimed): _reset_pose_estimator returns only if one sample was
\* delivered, after the stamp was recorded, that is newer than that stamp and
\* has both horizontal-position flags true.
C6_ReturnsOnlyOnGoodSample ==
    (epc = "done" /\ eresult = "returned") => goodSample

\* the thread of _reset_pose_estimator keeps running, and the processes it
\* spawns exit; nothing makes the estimator publish a good sample
SpecEstLive ==
    /\ SpecEst
    /\ WF_vars(StopExits)
    /\ WF_vars(StopWait)
    /\ WF_vars(StartSpawn)
    /\ WF_vars(StartExits)
    /\ WF_vars(StartWait)
    /\ WF_vars(LoopStamp)
    /\ WF_vars(LoopRel)
    /\ WF_vars(LoopAbs)

\* C15 (as claimed): every call of _reset_pose_estimator eventually returns,
\* also when no good sample arrives and when rospy is shut down.
C15_BarrierReturns ==
    (epc = "stop_wait") ~> (epc = "done")

\* the order of the steps of _reset_pose_estimator
EstimatorSteps ==
    <<"stamp", "stop", "stop_exited", "start", "start_exited", "poll">>

\* C19: the steps of _reset_pose_estimator run in the order: record the
\* stamp, spawn the stop and wait for its exit, spawn the start, poll; the
\* start is never spawned while the stop is running, and no step is repeated
\* (a stop that does not exit is not spawned again).
C19_EstimatorStepOrder ==
    /\ Len(elog) <= Len(EstimatorSteps)
    /\ elog = SubSeq(EstimatorSteps, 1, Len(elog))
    /\ ekf2_start # "none" => ekf2_stop = "exited"
    /\ epc \in {"loop_stamp", "loop_rel", "loop_abs"} =>
           (ekf2_start = "exited" /\ Len(elog) >= 5)
    /\ (epc = "stop_wait" /\ ekf2_stop = "running") => elog = <<"stamp", "stop">>

\* C19 witness: the barrier polls after the start process exited, and a
\* sample newer than the recorded one has arrived meanwhile.
C19_Witness ==
    /\ epc = "loop_rel"
    /\ elog = EstimatorSteps
    /\ ekf2_stop = "exited"
    /\ ekf2_start = "exited"
    /\ _est_status[1].stamp > time_stamp

(* ============================ AirSim handler =========================== *)
SpecAir == Init /\ [][NextAir]_vars

\* C7 (as claimed): a client_state read that directly follows reset() returns
\* a snapshot fetched from the simulator after that reset.
C7_ReadAfterResetIsFresh ==
    (lastOp = "client_state" /\ prevOp = "reset" /\ outcome = "returned") =>
        fetched

\* C10 (as claimed): no exception of the vendor client escapes from any
\* operation of the handler.
C10_NoVendorExceptionEscapes ==
    lastOp \in {"reset", "pause", "unpause", "client_arm", "client_takeoff",
                "client_land", "client_cmd_vel"} => outcome # "raised"

\* C10 (amended): an exception the vendor client raises during reset, pause
\* or unpause is swallowed by the operation, which returns; it does not
\* escape to the caller.
C10_SimulationControlSwallows ==
    (lastOp \in {"reset", "pause", "unpause"} /\ vendorRaised) =>
        outcome = "returned"

\* C10 witness: the vendor client raised inside reset() after the simulator
\* had been reset, and reset() returned.
C10_Witness ==
    /\ lastOp = "reset"
    /\ vendorRaised
    /\ outcome = "returned"
    /\ ~sim.api

\* C11 (as claimed): whenever reset() has returned, reset, enableApiControl
\* and armDisarm have been issued in that order, and the simulator has API
\* control enabled and the vehicle disarmed.
C11_ResetReassertsControl ==
    (lastOp = "reset" /\ outcome = "returned") =>
        /\ calls = ResetOrder
        /\ sim.api
        /\ ~sim.armed

\* C11 (amended): whenever reset() has returned it has issued a prefix of
\* reset, enableApiControl, armDisarm that begins with reset; when no vendor
\* call raised it has issued all three, and the simulator has API control
\* enabled and the vehicle disarmed; when one raised, the calls after it were
\* not issued.
C11_ResetReassertsUnlessRaised ==
    lastOp = "reset" =>
        /\ outcome = "returned"
        /\ Len(calls) >= 1
        /\ Len(calls) <= Len(ResetOrder)
        /\ calls = SubSeq(ResetOrder, 1, Len(calls))
        /\ ~vendorRaised => (calls = ResetOrder /\ sim.api /\ ~sim.armed)
        /\ vendorRaised =>
               (Len(calls) = 1 \/ (~sim.api /\ ~sim.armed) \/ calls = ResetOrder)

\* C11 witness: reset() ran right after the vehicle had been armed, no
\* vendor call raised, and control is enabled with the vehicle disarmed.
C11_Witness ==
    /\ prevOp = "client_arm"
    /\ lastOp = "reset"
    /\ ~vendorRaised
    /\ calls = ResetOrder
    /\ sim.gen >= 1
    /\ sim.api
    /\ ~sim.armed

\* C14 (as claimed): between two successful unpause() calls at most one
\* getMultirotorState call is issued, by the first client_state read, and
\* every later read returns the snapshot of that call.
C14_AtMostOneQueryPerUnpause ==
    /\ queries <= 1
    /\ (lastOp = "client_state" /\ queries = 1) => lastRead = _multirotor_state

\* C14 (amended): between two successful unpause() calls at most one
\* getMultirotorState call returns a snapshot; the snapshot is stale exactly
\* until then; a read that finds it stale queries the client, and every read
\* after the one whose query returned gives that snapshot back without
\* querying the client.
C14_OneFetchPerUnpause ==
    /\ fetches <= 1
    /\ _new_state <=> fetches = 0
    /\ fetches <= queries
    /\ (lastOp = "unpause" /\ ~vendorRaised) => (_new_state /\ queries = 0)
    /\ (lastOp = "client_state" /\ outcome = "returned") =>
           /\ fetches = 1
           /\ lastRead = _multirotor_state
           /\ calls = IF fetched THEN <<"getMultirotorState">> ELSE << >>
    /\ (lastOp = "client_state" /\ outcome = "raised") => _new_state

\* C14 witness: a client_state read that followed another one returned the
\* cached snapshot without a query, while the simulator has moved on.
C14_Witness ==
    /\ prevOp = "client_state"
    /\ lastOp = "client_state"
    /\ outcome = "returned"
    /\ ~fetched
    /\ calls = << >>
    /\ fetches = 1
    /\ lastRead = _multirotor_state
    /\ lastRead[1] # Snapshot(sim)

\* C20 (as claimed): the constructor issues confirmConnection,
\* enableApiControl, armDisarm, simPause in that order; when the connection
\* cannot be confirmed the process exits with nothing else issued; after a
\* successful construction the simulation is paused and the snapshot stale.
C20_ConstructedMeansPaused ==
    lastOp = "setup" =>
        /\ Len(calls) <= Len(SetupOrder)
        /\ calls = SubSeq(SetupOrder, 1, Len(calls))
        /\ phase = "exited" <=> calls = <<"confirmConnection">>
        /\ phase = "ready" => (calls = SetupOrder /\ sim.paused /\ _new_state)

\* C20 (amended): the constructor issues confirmConnection, enableApiControl,
\* armDisarm, simPause in that order, up to the first that raises; when
\* confirmConnection raises the process exits with nothing else issued; when
\* the constructor returns all four were issued and the snapshot is stale,
\* and when none of them raised the simulation is paused, under API control
\* and disarmed.
C20_ConstructedPausedUnlessRaised ==
    lastOp = "setup" =>
        /\ Len(calls) >= 1
        /\ Len(calls) <= Len(SetupOrder)
        /\ calls = SubSeq(SetupOrder, 1, Len(calls))
        /\ phase = "exited" <=> calls = <<"confirmConnection">>
        /\ phase = "exited" => (~sim.api /\ ~sim.paused)
        /\ phase = "ready" => (calls = SetupOrder /\ _new_state)
        /\ (phase = "ready" /\ ~vendorRaised) =>
               (sim.paused /\ sim.api /\ ~sim.armed)

\* C20 witness: the constructor returned with no vendor call raised; the
\* simulation is paused and the snapshot is stale.
C20_Witness ==
    /\ lastOp = "setup"
    /\ phase = "ready"
    /\ ~vendorRaised
    /\ calls = SetupOrder
    /\ sim.paused
    /\ _new_state

====
